---- MODULE Spec2Model ----
(***************************************************************************)
(* State machine of mpe-state (src/src/lib.rs): the 16-slot channel array  *)
(* of MPEState, the zone configuration algorithm, the zone range queries   *)
(* and the pitch bend sensitivity propagation.                             *)
(*                                                                         *)
(* A channel is a record                                                   *)
(*   [type, member_channels, pitch_bend_sensitivity, notes]                *)
(* where type is the variant of enum Channel, member_channels is the field *)
(* of the Manager variant (0 in the other variants, which have no such     *)
(* field), and notes is the length of the channel's note collection.       *)
(* The f32 fields of MIDIChannel (pitch_bend, channel_pressure,            *)
(* timbre_control) are written by no function of the crate other than the  *)
(* constructor and are left out.                                           *)
(*                                                                         *)
(* A Range<usize> is a record [start, end]; an Option is a set with at     *)
(* most one element.  A panic (a failing unwrap, a slice index out of      *)
(* range, an arithmetic overflow in a build that checks it) ends the       *)
(* program: the variable panicked becomes TRUE and no operation follows.   *)
(***************************************************************************)
EXTENDS Integers, FiniteSets, Sequences, TLC

\* ---------------------------------------------------------------- bounds
\* Pitch bend sensitivities passed by the caller are 0..MaxPbs.
MaxPbs == 3
\* Largest number of notes a caller puts into one channel's collection.
MaxNotes == 1
\* Number of calls other than config (set_pitch_bend_sensitivity, note
\* insertions) in one run.
MaxCalls == 1

\* enum Channel with its MIDIChannel payload, as one record
ChannelRecords ==
    [pitch_bend_sensitivity : Nat, notes : Nat,
     type : {"Manager", "Member", "Conventional"}, member_channels : Nat]
\* the record of a call (see last below)
CallRecords ==
    [zone : {"Lower", "Upper", "-"}, channel : Nat, prev : Nat,
     op : {"new", "config", "set_pitch_bend_sensitivity", "note_on", "note_off"},
     arg : Nat, other : Nat]
\* core::ops::Range<usize>
RangeRecords == [start : Nat, end : Nat]

\* ------------------------------------------------------ program constants
NumChannels == 16
LowerManager == 0
UpperManager == 15
DefaultPbs == 2
MemberPbs == 48
PbsFloor == 2
ManagerOffset == 1
U8Modulus == 256

Channels == 0 .. (NumChannels - 1)
Zones == {"Lower", "Upper"}
\* The documented domain of config's member_channels argument (spec 4.2).
MaxMemberChannels == NumChannels - 2
\* The largest argument the repository's own tests pass (config(Lower, 15)).
MaxTestedMemberChannels == NumChannels - 1

VARIABLES channels, panicked, last, calls, query, answer

vars == <<channels, panicked, last, calls, query, answer>>

\* ------------------------------------------------------------- utilities
Max(a, b) == IF a >= b THEN a ELSE b
Min(a, b) == IF a <= b THEN a ELSE b
abs_diff(a, b) == IF a >= b THEN a - b ELSE b - a

Some(x) == {x}
None == {}
unwrap(o) == CHOOSE x \in o : TRUE

MkRange(s, e) == [start |-> s, end |-> e]
\* Range::contains
contains(r, i) == r.start <= i /\ i < r.end
\* Range::len, and the length of the slice a valid range selects
len(r) == IF r.end >= r.start THEN r.end - r.start ELSE 0
\* &self.channels[range] panics unless start <= end <= 16
SliceOk(r) == r.start <= r.end /\ r.end <= NumChannels
Indices(r) == {i \in Channels : contains(r, i)}

\* -------------------------------------------------------------- Zone
manager_channel(zone) == IF zone = "Lower" THEN LowerManager ELSE UpperManager
get_other(zone) == IF zone = "Lower" THEN "Upper" ELSE "Lower"

\* ------------------------------------------------------- Channel::new_*
MIDIChannel_default == [pitch_bend_sensitivity |-> DefaultPbs, notes |-> 0]

new_member ==
    [pitch_bend_sensitivity |-> MemberPbs, notes |-> MIDIChannel_default.notes,
     type |-> "Member", member_channels |-> 0]

new_conventional ==
    [pitch_bend_sensitivity |-> MIDIChannel_default.pitch_bend_sensitivity,
     notes |-> MIDIChannel_default.notes,
     type |-> "Conventional", member_channels |-> 0]

new_manager(member_channels) ==
    [pitch_bend_sensitivity |-> MIDIChannel_default.pitch_bend_sensitivity,
     notes |-> MIDIChannel_default.notes,
     type |-> "Manager", member_channels |-> member_channels]

\* slice.fill(c) on the slice a (valid) range selects
fill(ch, r, c) == [i \in Channels |-> IF contains(r, i) THEN c ELSE ch[i]]

\* ------------------------------------------------------- index translation
\* compute_range without the shift by one of the mirrored (Upper) range
compute_range_unshifted(zone, range) ==
    LET manager_index == manager_channel(zone)
        start == abs_diff(range.start, manager_index)
        end == abs_diff(range.end, manager_index)
    IN  IF zone = "Lower" THEN MkRange(start, end) ELSE MkRange(end, start)

\* compute_range that returns the zone-relative range as it is
compute_range_unmirrored(zone, range) == MkRange(range.start, range.end)

compute_range(zone, range) ==
    LET manager_index == manager_channel(zone)
        start == abs_diff(range.start, manager_index)
        end == abs_diff(range.end, manager_index)
    IN  IF zone = "Lower" THEN MkRange(start, end) ELSE MkRange(end + 1, start + 1)

zone_member_channel_range(ch, zone) ==
    IF ch[manager_channel(zone)].type = "Manager"
    THEN Some(compute_range(zone,
                MkRange(ManagerOffset,
                        ch[manager_channel(zone)].member_channels + ManagerOffset)))
    ELSE None

zone_channel_range(ch, zone) ==
    IF ch[manager_channel(zone)].type = "Manager"
    THEN Some(compute_range(zone,
                MkRange(0, ch[manager_channel(zone)].member_channels + ManagerOffset)))
    ELSE None

active(ch) ==
    ch[0].type = "Manager" \/ ch[NumChannels - 1].type = "Manager"

zone_by_channel(ch, channel) ==
    IF \E r \in zone_channel_range(ch, "Lower") : contains(r, channel) THEN Some("Lower")
    ELSE IF \E r \in zone_channel_range(ch, "Upper") : contains(r, channel) THEN Some("Upper")
    ELSE None

get_channel(ch, channel) ==
    IF channel \in Channels
    THEN Some([pitch_bend_sensitivity |-> ch[channel].pitch_bend_sensitivity,
               notes |-> ch[channel].notes])
    ELSE None

\* the first index of the member range, in the order Range's iterator yields
\* them (ascending absolute index), whose note collection is empty
first_empty(ch, range) ==
    LET empty == {i \in Indices(range) : \A m \in get_channel(ch, i) : m.notes = 0}
    IN  IF empty = {} THEN None
        ELSE Some(CHOOSE i \in empty : \A j \in empty : i <= j)

unoccupied_channel(ch, zone) ==
    LET o == zone_member_channel_range(ch, zone)
    IN  IF o = None THEN None ELSE first_empty(ch, unwrap(o))

\* ---------------------------------------------------------------- config
\* The outcome of an operation: the array it leaves, or a panic.
Ok(ch) == [channels |-> ch, panicked |-> FALSE, overflowed |-> FALSE]
Panic(ch) == [channels |-> ch, panicked |-> TRUE, overflowed |-> FALSE]
Overflow(ch) == [channels |-> ch, panicked |-> FALSE, overflowed |-> TRUE]
\* What the builds make of an outcome: an overflow panics where overflow checks
\* are compiled in and wraps around where they are not.
Builds(ch, r) == IF r.overflowed THEN {Panic(ch), Ok(r.channels)} ELSE {r}

prev_member_channels(ch, zone) ==
    IF ch[manager_channel(zone)].type = "Manager"
    THEN ch[manager_channel(zone)].member_channels
    ELSE 0

\* zone_channels(zone).map_or(0, |c| c.len()): a panic when the slice is invalid
\* is reported as -1.
zone_channels_len(ch, zone) ==
    LET o == zone_channel_range(ch, zone)
    IN  IF o = None THEN 0
        ELSE IF SliceOk(unwrap(o)) THEN len(unwrap(o)) ELSE -1

\* config_disable that resets the member channels and leaves the manager
config_disable_members_only(ch, zone) ==
    IF ch[manager_channel(zone)].type = "Manager"
    THEN LET r == unwrap(zone_member_channel_range(ch, zone))
         IN  IF SliceOk(r) THEN Ok(fill(ch, r, new_conventional)) ELSE Panic(ch)
    ELSE Ok(ch)

\* member_channels == 0
config_disable(ch, zone) ==
    IF ch[manager_channel(zone)].type = "Manager"
    THEN LET r == unwrap(zone_channel_range(ch, zone))
         IN  IF SliceOk(r) THEN Ok(fill(ch, r, new_conventional)) ELSE Panic(ch)
    ELSE Ok(ch)

\* grow_manager that adds the requested count to the count the manager holds
grow_manager_additive(ch, zone, new_member_channels) ==
    IF ch[manager_channel(zone)].type = "Manager"
    THEN [ch EXCEPT ![manager_channel(zone)].member_channels =
             @ + new_member_channels]
    ELSE [ch EXCEPT ![manager_channel(zone)] = new_manager(new_member_channels)]

\* grow_manager that retags the slot and keeps what the channel held
grow_manager_in_place(ch, zone, new_member_channels) ==
    [ch EXCEPT ![manager_channel(zone)].type = "Manager",
               ![manager_channel(zone)].member_channels = new_member_channels]

\* grow_manager that constructs the manager anew on every call
grow_manager_fresh(ch, zone, new_member_channels) ==
    [ch EXCEPT ![manager_channel(zone)] = new_manager(new_member_channels)]

\* the first half of the grow arm: the manager slot
grow_manager(ch, zone, new_member_channels) ==
    IF ch[manager_channel(zone)].type = "Manager"
    THEN [ch EXCEPT ![manager_channel(zone)].member_channels = new_member_channels]
    ELSE [ch EXCEPT ![manager_channel(zone)] = new_manager(new_member_channels)]

\* grow_fill_range that runs one slot past the last new member
grow_fill_range_long(prev, new_member_channels) ==
    MkRange(Max(prev, 1), new_member_channels + 2)

\* the zone-relative range of the slots the grow arm fills with new members
grow_fill_range(prev, new_member_channels) ==
    MkRange(Max(prev, 1), new_member_channels + 1)

\* resolve_overlap that leaves the opposite zone alone
resolve_overlap_none(ch, zone) == Ok(ch)

\* resolve_overlap without the arm that disables the opposite zone
resolve_overlap_no_disable(ch, zone) ==
    LET zone_channels == zone_channels_len(ch, zone)
        other_zone_channels == zone_channels_len(ch, get_other(zone))
        other_manager == manager_channel(get_other(zone))
        remaining_channels == NumChannels - zone_channels
    IN  IF zone_channels < 0 \/ other_zone_channels < 0 THEN Panic(ch)
        ELSE IF ch[other_manager].type # "Manager" THEN Ok(ch)
        ELSE IF other_zone_channels > remaining_channels /\ remaining_channels >= 1
             THEN Ok([ch EXCEPT ![other_manager].member_channels =
                         remaining_channels - 1])
        ELSE Ok(ch)

\* resolve_overlap that forgets the opposite zone's manager when it shrinks it
resolve_overlap_off_by_one(ch, zone) ==
    LET zone_channels == zone_channels_len(ch, zone)
        other_zone_channels == zone_channels_len(ch, get_other(zone))
        other_manager == manager_channel(get_other(zone))
        remaining_channels == NumChannels - zone_channels
    IN  IF zone_channels < 0 \/ other_zone_channels < 0 THEN Panic(ch)
        ELSE IF ch[other_manager].type # "Manager" THEN Ok(ch)
        ELSE IF remaining_channels = 1
             THEN Ok([ch EXCEPT ![other_manager] = new_conventional])
        ELSE IF other_zone_channels > remaining_channels
             THEN Ok([ch EXCEPT ![other_manager].member_channels = remaining_channels])
        ELSE Ok(ch)

\* the overlap resolution of the grow arm.  `remaining_channels as u8 - 1`
\* overflows when remaining_channels is 0: the outcome is then marked, and
\* carries the array of a build that wraps around
resolve_overlap(ch, zone) ==
    LET zone_channels == zone_channels_len(ch, zone)
        other_zone_channels == zone_channels_len(ch, get_other(zone))
        other_manager == manager_channel(get_other(zone))
        remaining_channels == NumChannels - zone_channels
    IN  IF zone_channels < 0 \/ other_zone_channels < 0 THEN Panic(ch)
        ELSE IF ch[other_manager].type # "Manager" THEN Ok(ch)
        ELSE IF remaining_channels = 1
             THEN Ok([ch EXCEPT ![other_manager] = new_conventional])
        ELSE IF other_zone_channels > remaining_channels
             THEN IF (remaining_channels % U8Modulus) - 1 < 0
                  THEN Overflow([ch EXCEPT ![other_manager].member_channels =
                                    U8Modulus - 1])
                  ELSE Ok([ch EXCEPT ![other_manager].member_channels =
                              (remaining_channels % U8Modulus) - 1])
        ELSE Ok(ch)

\* new_member_channels > prev_member_channels
config_grow(ch, zone, new_member_channels) ==
    LET prev == prev_member_channels(ch, zone)
        ch1 == grow_manager(ch, zone, new_member_channels)
        r == compute_range(zone, grow_fill_range(prev, new_member_channels))
    IN  IF ~SliceOk(r) THEN Panic(ch)
        ELSE resolve_overlap(fill(ch1, r, new_member), zone)

\* shrink_fill_range that stops one slot short of the last previous member
shrink_fill_range_short(prev, new_member_channels) ==
    MkRange(new_member_channels, prev)

\* the zone-relative range of the slots the shrink arm turns conventional
shrink_fill_range(prev, new_member_channels) ==
    MkRange(new_member_channels, prev + 1)

\* new_member_channels < prev_member_channels
config_shrink(ch, zone, new_member_channels) ==
    LET prev == prev_member_channels(ch, zone)
        m == manager_channel(zone)
        r == compute_range(zone, shrink_fill_range(prev, new_member_channels))
    IN  IF ch[m].type = "Manager"
        THEN IF SliceOk(r)
             THEN Ok(fill([ch EXCEPT ![m].member_channels = new_member_channels],
                          r, new_conventional))
             ELSE Panic(ch)
        ELSE Ok(ch)

config(ch, zone, member_channels) ==
    LET prev == prev_member_channels(ch, zone)
    IN  IF member_channels = 0 THEN config_disable(ch, zone)
        ELSE IF member_channels > prev THEN config_grow(ch, zone, member_channels)
        ELSE IF member_channels < prev THEN config_shrink(ch, zone, member_channels)
        ELSE Ok(ch)

\* ------------------------------------------- set_pitch_bend_sensitivity
\* own_sensitivity without the floor
own_sensitivity_unclamped(pitch_bend_sensitivity) == pitch_bend_sensitivity

\* the value stored on a Manager or Conventional channel
own_sensitivity(pitch_bend_sensitivity) == Max(pitch_bend_sensitivity, PbsFloor)

\* propagation over the members of both zones
propagation_range_all_zones(ch, zone) == Some(MkRange(0, NumChannels))

\* the slice the Member arm iterates over
propagation_range(ch, zone) == zone_member_channel_range(ch, zone)

set_pitch_bend_sensitivity(ch, channel, pitch_bend_sensitivity) ==
    LET zone == zone_by_channel(ch, channel)
    IN  IF ch[channel].type \in {"Manager", "Conventional"}
        THEN Ok([ch EXCEPT ![channel].pitch_bend_sensitivity =
                    own_sensitivity(pitch_bend_sensitivity)])
        ELSE IF zone = None THEN Panic(ch)
        ELSE LET o == propagation_range(ch, unwrap(zone))
             IN  IF o = None THEN Panic(ch)
                 ELSE IF ~SliceOk(unwrap(o)) THEN Panic(ch)
                 ELSE Ok([i \in Channels |->
                            IF contains(unwrap(o), i) /\ ch[i].type = "Member"
                            THEN [ch[i] EXCEPT !.pitch_bend_sensitivity =
                                     pitch_bend_sensitivity]
                            ELSE ch[i]])

\* ------------------------------------------------------------ the machine
\* last is the call made most recently: its name, its zone or channel and its
\* numeric argument; for a config call a caller observes, also the member
\* counts of the zone (prev) and of the opposite zone (other) before the call.
NoCall == [zone |-> "-", channel |-> 0, prev |-> 0, op |-> "new", arg |-> 0, other |-> 0]

\* query is a call of the pure function compute_range, <<zone, start, end>>,
\* and answer the range it returned
NoQuery == <<"-", 0, 0>>

Init ==
    /\ channels = [i \in Channels |-> new_conventional]
    /\ panicked = FALSE
    /\ last = NoCall
    /\ calls = 0
    /\ query = NoQuery
    /\ answer = None

\* state.config(zone, member_channels), recorded as the call `call`
ConfigCall(zone, member_channels, call) ==
    /\ ~panicked
    /\ \E r \in Builds(channels, config(channels, zone, member_channels)) :
         /\ channels' = r.channels
         /\ panicked' = r.panicked
    /\ last' = call
    /\ UNCHANGED <<calls, query, answer>>

\* state.config(zone, member_channels)
Config(zone, member_channels) ==
    ConfigCall(zone, member_channels,
               [zone |-> zone, channel |-> manager_channel(zone), prev |-> 0,
                op |-> "config", arg |-> member_channels, other |-> 0])

\* state.config(zone, member_channels) by a caller that read both zones' member
\* counts before the call
ConfigObserved(zone, member_channels) ==
    ConfigCall(zone, member_channels,
               [zone |-> zone, channel |-> manager_channel(zone),
                prev |-> prev_member_channels(channels, zone),
                op |-> "config", arg |-> member_channels,
                other |-> prev_member_channels(channels, get_other(zone))])

\* state.set_pitch_bend_sensitivity(channel, value)
SetPitchBendSensitivity(channel, value) ==
    /\ ~panicked
    /\ calls < MaxCalls
    /\ LET r == set_pitch_bend_sensitivity(channels, channel, value)
       IN  /\ channels' = r.channels
           /\ panicked' = r.panicked
    /\ last' = [zone |-> "-", channel |-> channel, prev |-> 0,
                op |-> "set_pitch_bend_sensitivity", arg |-> value, other |-> 0]
    /\ calls' = calls + 1
    /\ UNCHANGED <<query, answer>>

\* state.get_channel_mut(channel).notes gains a note (the caller's note-on)
NoteOn(channel) ==
    /\ ~panicked
    /\ calls < MaxCalls
    /\ channels[channel].notes < MaxNotes
    /\ channels' = [channels EXCEPT ![channel].notes = @ + 1]
    /\ last' = [zone |-> "-", channel |-> channel, prev |-> 0,
                op |-> "note_on", arg |-> 0, other |-> 0]
    /\ calls' = calls + 1
    /\ UNCHANGED <<panicked, query, answer>>

\* state.get_channel_mut(channel).notes loses a note (the caller's note-off)
NoteOff(channel) ==
    /\ ~panicked
    /\ channels[channel].notes > 0
    /\ channels' = [channels EXCEPT ![channel].notes = @ - 1]
    /\ last' = [zone |-> "-", channel |-> channel, prev |-> 0,
                op |-> "note_off", arg |-> 0, other |-> 0]
    /\ UNCHANGED <<panicked, calls, query, answer>>

\* config within its documented domain, and the other calls
Next ==
    \/ \E zone \in Zones, member_channels \in 0 .. MaxMemberChannels :
         Config(zone, member_channels)
    \/ \E channel \in Channels, value \in 0 .. MaxPbs :
         SetPitchBendSensitivity(channel, value)
    \/ \E channel \in Channels : NoteOn(channel)
    \/ \E channel \in Channels : NoteOff(channel)

Spec == Init /\ [][Next]_vars

\* sequences of config calls within the documented domain
NextConfig ==
    \E zone \in Zones, member_channels \in 0 .. MaxMemberChannels :
        ConfigObserved(zone, member_channels)

SpecConfig == Init /\ [][NextConfig]_vars

\* sequences of config calls with every argument the repository's tests pass
NextTested ==
    \E zone \in Zones, member_channels \in 0 .. MaxTestedMemberChannels :
        ConfigObserved(zone, member_channels)

SpecTested == Init /\ [][NextTested]_vars

\* compute_range on its own: every zone and every zone-relative range
\* start..end with 0 <= start <= end <= 16
Queries ==
    {<<zone, a, b>> : zone \in Zones, a \in 0 .. NumChannels, b \in 0 .. NumChannels}

InitRange ==
    /\ channels = [i \in Channels |-> new_conventional]
    /\ panicked = FALSE
    /\ last = NoCall
    /\ calls = 0
    /\ query \in {q \in Queries : q[2] <= q[3]}
    /\ answer = None

\* Self::compute_range(zone, start..end)
ComputeRange ==
    /\ answer = None
    /\ answer' = Some(compute_range(query[1], MkRange(query[2], query[3])))
    /\ UNCHANGED <<channels, panicked, last, calls, query>>

SpecRange == InitRange /\ [][ComputeRange]_vars

\* the shape of the state
TypeOK ==
    /\ channels \in [Channels -> ChannelRecords]
    /\ panicked \in BOOLEAN
    /\ last \in CallRecords
    /\ calls \in 0 .. MaxCalls
    /\ query \in Queries \cup {NoQuery}
    /\ answer \subseteq RangeRecords

\* ================================================================ claims
Enabled(zone) == zone_channel_range(channels, zone) # None
Members(zone) == prev_member_channels(channels, zone)
\* the indices a zone's query returns (none: the empty set)
ZoneIndices(zone) == UNION {Indices(r) : r \in zone_channel_range(channels, zone)}
MemberIndices(zone) == UNION {Indices(r) : r \in zone_member_channel_range(channels, zone)}
LastConfig == last.op = "config" /\ ~panicked
LastGrow == LastConfig /\ last.arg \in 1 .. MaxMemberChannels /\ last.arg > last.prev
LastPbs == last.op = "set_pitch_bend_sensitivity" /\ ~panicked

\* C1: after any sequence of config calls with n in 0..=14 the two zones never
\* overlap: when both are enabled with l and u members, the Lower indices 0..=l
\* and the Upper indices (15-u)..=15 are disjoint, (l+1)+(u+1) <= 16, and no
\* zone's member range contains index 0 or index 15.
C1_ZonesNeverOverlap ==
    /\ (Enabled("Lower") /\ Enabled("Upper")) =>
         /\ ZoneIndices("Lower") = 0 .. Members("Lower")
         /\ ZoneIndices("Upper") = (UpperManager - Members("Upper")) .. UpperManager
         /\ ZoneIndices("Lower") \cap ZoneIndices("Upper") = {}
         /\ (Members("Lower") + 1) + (Members("Upper") + 1) <= NumChannels
    /\ \A zone \in Zones :
         LowerManager \notin MemberIndices(zone) /\ UpperManager \notin MemberIndices(zone)

\* a grow that met an overlapping opposite zone and left the two zones adjacent
C1_Witness ==
    /\ LastGrow
    /\ Enabled("Lower") /\ Enabled("Upper")
    /\ last.other > Members(get_other(last.zone))
    /\ Members("Lower") + Members("Upper") = MaxMemberChannels

\* C2: after any sequence of config calls with n in 0..=14, every channel inside
\* zone_member_channel_range(zone) of an enabled zone is tagged Member.
C2_MemberRangeIsMembers ==
    \A zone \in Zones : \A i \in MemberIndices(zone) : channels[i].type = "Member"

\* C3: index 0 and index 15 each hold a Manager with member_channels in 1..=14 or
\* a Conventional channel, no index in 1..=14 holds a Manager, and a zone's range
\* queries return none exactly when its manager index is Conventional.
C3_ManagerSlots ==
    /\ \A i \in {LowerManager, UpperManager} :
         \/ channels[i].type = "Conventional"
         \/ channels[i].type = "Manager"
              /\ channels[i].member_channels \in 1 .. MaxMemberChannels
    /\ \A i \in Channels \ {LowerManager, UpperManager} : channels[i].type # "Manager"
    /\ \A zone \in Zones :
         /\ zone_channel_range(channels, zone) = None
              <=> channels[manager_channel(zone)].type = "Conventional"
         /\ zone_member_channel_range(channels, zone) = None
              <=> channels[manager_channel(zone)].type = "Conventional"

\* a grow to 14 members that found the opposite zone enabled and left its manager
\* slot Conventional
C3_Witness ==
    /\ LastGrow
    /\ last.arg = MaxMemberChannels
    /\ last.other > 0
    /\ channels[manager_channel(get_other(last.zone))].type = "Conventional"

\* C4: immediately after config(zone, n): if n = 0 both range queries of the zone
\* return none; if n is in 1..=14 the zone is enabled with member_channels = n,
\* zone_member_channel_range(Lower) is 1..=n and
\* zone_member_channel_range(Upper) is (15-n)..=14.
C4_ConfigPostcondition ==
    LastConfig =>
      /\ last.arg = 0 =>
           /\ zone_channel_range(channels, last.zone) = None
           /\ zone_member_channel_range(channels, last.zone) = None
      /\ last.arg \in 1 .. MaxMemberChannels =>
           /\ Enabled(last.zone)
           /\ Members(last.zone) = last.arg
           /\ zone_member_channel_range(channels, last.zone) =
                IF last.zone = "Lower"
                THEN Some(MkRange(1, last.arg + 1))
                ELSE Some(MkRange(UpperManager - last.arg, UpperManager))
           /\ MemberIndices(last.zone) =
                IF last.zone = "Lower"
                THEN 1 .. last.arg
                ELSE (UpperManager - last.arg) .. (UpperManager - 1)

\* the Upper zone was shrunk from more members to n >= 1
C4_Witness ==
    /\ LastConfig
    /\ last.zone = "Upper"
    /\ last.arg >= 1
    /\ last.prev > last.arg
    /\ Members("Upper") = last.arg

C6_Deactivation ==
    /\ (LastConfig /\ last.arg = 0 /\ last.prev > 0) =>
         \A k \in 0 .. last.prev :
           channels[abs_diff(manager_channel(last.zone), k)].type = "Conventional"
    /\ (LastConfig /\ last.arg = 0 /\ ~Enabled(get_other(last.zone))) =>
         /\ \A i \in Channels : channels[i].type = "Conventional"
         /\ ~active(channels)
    /\ active(channels) <=> (\E zone \in Zones : Members(zone) > 0)

\* config(zone, 0) disabled the last enabled zone, which had members
C6_Witness ==
    /\ LastConfig
    /\ last.arg = 0
    /\ last.prev > 1
    /\ ~Enabled("Lower") /\ ~Enabled("Upper")

\* C7: after set_pitch_bend_sensitivity(c, v) on a channel c tagged Member,
\* every channel inside zone_member_channel_range of c's zone has
\* pitch_bend_sensitivity v.
C7_MemberPropagation ==
    (LastPbs /\ channels[last.channel].type = "Member") =>
      \A zone \in zone_by_channel(channels, last.channel) :
        \A i \in MemberIndices(zone) :
          channels[i].pitch_bend_sensitivity = last.arg

\* the channels set_pitch_bend_sensitivity(c, v) may write, read before the call
PbsTargets(ch, c) ==
    IF ch[c].type = "Member"
    THEN UNION {Indices(r) :
                  r \in UNION {zone_member_channel_range(ch, zone) :
                                 zone \in zone_by_channel(ch, c)}}
    ELSE {c}

\* C8: set_pitch_bend_sensitivity(c, v) changes nothing but the sensitivity of
\* its target set ({c} for a Manager or Conventional c, the member channels of
\* c's zone for a Member c): every channel outside the target set keeps its
\* sensitivity, and every channel keeps its role tag, member_channels and notes.
C8_PbsFrame ==
    [][ (last'.op = "set_pitch_bend_sensitivity" /\ calls' = calls + 1 /\ ~panicked') =>
          \A i \in Channels :
            /\ i \notin PbsTargets(channels, last'.channel) => channels'[i] = channels[i]
            /\ channels'[i].type = channels[i].type
            /\ channels'[i].member_channels = channels[i].member_channels
            /\ channels'[i].notes = channels[i].notes ]_vars

\* a Member of the Lower zone was set to a new value, next to an enabled Upper
\* zone whose members and manager hold their defaults and a Lower manager that
\* holds its own
C8_Witness ==
    /\ LastPbs
    /\ channels[last.channel].type = "Member"
    /\ zone_by_channel(channels, last.channel) = Some("Lower")
    /\ channels[last.channel].pitch_bend_sensitivity = last.arg
    /\ last.arg # MemberPbs
    /\ channels[LowerManager].pitch_bend_sensitivity = DefaultPbs
    /\ Enabled("Upper")
    /\ \A i \in MemberIndices("Upper") :
         channels[i].type = "Member" /\ channels[i].pitch_bend_sensitivity = MemberPbs
    /\ \E i \in Channels : channels[i].type = "Conventional"

C10_OwnSensitivityExact ==
    (LastPbs /\ channels[last.channel].type \in {"Manager", "Conventional"}) =>
      \A m \in get_channel(channels, last.channel) :
        m.pitch_bend_sensitivity = last.arg

\* the absolute index of the channel at a zone-relative offset
At(zone, k) == abs_diff(manager_channel(zone), k)
\* the zone-relative offsets of a zone's member channels whose notes are empty
EmptyOffsets(zone) == {k \in 1 .. Members(zone) : channels[At(zone, k)].notes = 0}

\* C11: unoccupied_channel(zone) returns none exactly when the zone is disabled
\* or every member channel of the zone holds a note; otherwise it returns the
\* index of the empty member channel with the lowest zone-relative offset, the
\* one nearest the manager, for the Lower and for the Upper zone.
C11_NearestEmptyMember ==
    ~panicked =>
      \A zone \in Zones :
        /\ unoccupied_channel(channels, zone) = None
             <=> (~Enabled(zone) \/ EmptyOffsets(zone) = {})
        /\ (Enabled(zone) /\ EmptyOffsets(zone) # {}) =>
             unoccupied_channel(channels, zone) =
               Some(At(zone, CHOOSE k \in EmptyOffsets(zone) :
                               \A j \in EmptyOffsets(zone) : k <= j))

\* C12: after any sequence of config (n in 0..=14) and
\* set_pitch_bend_sensitivity calls, every channel tagged Member lies inside the
\* member range of an enabled zone, so zone_by_channel returns that zone for it
\* and neither unwrap of set_pitch_bend_sensitivity's Member arm fails, whatever
\* the value: the call never panics.
C12_MembersBelongToZones ==
    /\ ~panicked
    /\ \A i \in Channels :
         channels[i].type = "Member" =>
           /\ \E zone \in Zones : Enabled(zone) /\ i \in MemberIndices(zone)
           /\ \A zone \in zone_by_channel(channels, i) : i \in MemberIndices(zone)
           /\ zone_by_channel(channels, i) # None
           /\ \A v \in 0 .. MaxPbs :
                ~set_pitch_bend_sensitivity(channels, i, v).panicked

\* set_pitch_bend_sensitivity returned from its Member arm for a channel of a
\* zone that had been shrunk, beside an enabled opposite zone
C12_Witness ==
    /\ LastPbs
    /\ channels[last.channel].type = "Member"
    /\ \E zone \in zone_by_channel(channels, last.channel) :
         /\ \E i \in MemberIndices(zone) : channels[i].type = "Conventional"
         /\ Enabled(get_other(zone))

\* C13: after any sequence of config calls with n in 0..=14, zone_by_channel(i)
\* returns none exactly when channel i is Conventional, Lower exactly when i is
\* the Lower manager or a Lower member, and Upper exactly when i is the Upper
\* manager or an Upper member.
C13_ZoneByChannelMatchesTags ==
    ~panicked =>
      \A i \in Channels :
        /\ zone_by_channel(channels, i) = None <=> channels[i].type = "Conventional"
        /\ \A zone \in Zones :
             zone_by_channel(channels, i) = Some(zone)
               <=> \/ i = manager_channel(zone) /\ channels[i].type = "Manager"
                   \/ i \in MemberIndices(zone) /\ channels[i].type = "Member"

\* C14: when config(zone, n) grows an enabled zone from prev to n members
\* (1 <= prev < n <= 14), the slots at zone-relative offsets prev+1..=n hold
\* freshly initialised members afterwards, and every member channel the zone had
\* before the call (offsets 1..=prev) keeps its pitch_bend_sensitivity and its
\* notes.
C14_GrowKeepsExistingMembers ==
    [][ (/\ last'.op = "config"
         /\ ~panicked /\ ~panicked'
         /\ prev_member_channels(channels, last'.zone) >= 1
         /\ prev_member_channels(channels, last'.zone) < last'.arg) =>
          /\ \A k \in (prev_member_channels(channels, last'.zone) + 1) .. last'.arg :
               channels'[At(last'.zone, k)] = new_member
          /\ \A k \in 1 .. prev_member_channels(channels, last'.zone) :
               channels[At(last'.zone, k)].type = "Member" =>
                 /\ channels'[At(last'.zone, k)].pitch_bend_sensitivity =
                      channels[At(last'.zone, k)].pitch_bend_sensitivity
                 /\ channels'[At(last'.zone, k)].notes =
                      channels[At(last'.zone, k)].notes ]_vars

\* the absolute indices of a zone's offsets 0..=n
Span(zone, n) == {At(zone, k) : k \in 0 .. n}

\* C15: a config(zone, n) call changes only channels of the configured zone
\* unless overlap forces a change.  A grow changes no channel outside the zone's
\* new range (offsets 0..=n) except, when the opposite zone has m members with
\* n + m > 14, the opposite zone's manager slot; any other call (shrink, disable,
\* same count) changes no channel outside the zone's previous range; and a grow
\* with n + m <= 14 leaves every channel of the opposite zone, its manager's
\* member_channels included, as it was.
C15_ConfigFrame ==
    [][ (last'.op = "config" /\ ~panicked /\ ~panicked') =>
          LET zone == last'.zone
              n == last'.arg
              prev == prev_member_channels(channels, zone)
              other == get_other(zone)
              m == prev_member_channels(channels, other)
              changed == {i \in Channels : channels'[i] # channels[i]}
          IN  /\ n > prev =>
                   /\ changed \subseteq
                        Span(zone, n) \cup
                          (IF m >= 1 /\ n + m > MaxMemberChannels
                           THEN {manager_channel(other)} ELSE {})
                   /\ n + m <= MaxMemberChannels =>
                        /\ changed \cap Span(other, m) = {}
                        /\ prev_member_channels(channels', other) = m
              /\ n <= prev => changed \subseteq Span(zone, prev) ]_vars

\* a zone was configured beside an opposite zone that fits and whose members
\* and manager still hold the sensitivity set before the call
C15_Witness ==
    /\ LastConfig
    /\ last.arg >= 2
    /\ Members(last.zone) = last.arg
    /\ \A i \in MemberIndices(last.zone) : channels[i] = new_member
    /\ Members(get_other(last.zone)) >= 2
    /\ last.arg + Members(get_other(last.zone)) < MaxMemberChannels
    /\ \A i \in MemberIndices(get_other(last.zone)) :
         channels[i].type = "Member" /\ channels[i].pitch_bend_sensitivity = MaxPbs

\* C16: a manager's own expression state survives reconfiguration.  When
\* config(zone, n) with n >= 1 grows or shrinks a zone that is already enabled,
\* the zone's manager keeps its pitch_bend_sensitivity and notes and has
\* member_channels = n; and when the grow meets an opposite zone that has to
\* shrink but is not disabled (n + m > 14, n < 14), the opposite manager keeps
\* its pitch_bend_sensitivity and notes too.
C16_ManagerStateSurvives ==
    [][ (last'.op = "config" /\ ~panicked /\ ~panicked') =>
          LET zone == last'.zone
              n == last'.arg
              prev == prev_member_channels(channels, zone)
              mgr == manager_channel(zone)
              other == manager_channel(get_other(zone))
              m == prev_member_channels(channels, get_other(zone))
          IN  /\ (n >= 1 /\ prev >= 1 /\ n # prev) =>
                   /\ channels'[mgr].type = "Manager"
                   /\ channels'[mgr].member_channels = n
                   /\ channels'[mgr].pitch_bend_sensitivity =
                        channels[mgr].pitch_bend_sensitivity
                   /\ channels'[mgr].notes = channels[mgr].notes
              /\ (n > prev /\ m >= 1 /\ n + m > MaxMemberChannels
                    /\ n < MaxMemberChannels) =>
                   /\ channels'[other].type = "Manager"
                   /\ channels'[other].member_channels = MaxMemberChannels - n
                   /\ channels'[other].pitch_bend_sensitivity =
                        channels[other].pitch_bend_sensitivity
                   /\ channels'[other].notes = channels[other].notes ]_vars

\* a zone whose manager holds a sensitivity of its own was configured to n >= 1
\* members, and the slot at offset n shows that the zone has been shrunk to n
C16_Witness ==
    /\ LastConfig
    /\ last.arg >= 1
    /\ Members(last.zone) = last.arg
    /\ channels[manager_channel(last.zone)].pitch_bend_sensitivity = MaxPbs
    /\ channels[At(last.zone, last.arg)].type = "Conventional"

\* the indices inside a zone's member range in the array ch
MemberIndicesOf(ch, zone) ==
    UNION {Indices(r) : r \in zone_member_channel_range(ch, zone)}

\* C17: role transitions discard per-channel state.  Whenever a config call
\* (n in 0..=14) changes a channel's role tag, or a channel that was a member of
\* one zone is a member of the other zone afterwards, the channel then holds
\* freshly constructed state: empty notes, and pitch_bend_sensitivity 48 if it
\* is now a Member, 2 if it is now a Manager or Conventional.
C17_RoleTransitionsAreFresh ==
    [][ (last'.op = "config" /\ ~panicked /\ ~panicked') =>
          \A handed \in
               {UNION {MemberIndicesOf(channels, zone)
                         \cap MemberIndicesOf(channels', get_other(zone)) :
                       zone \in Zones}} :
            \A i \in Channels :
              (\/ channels'[i].type # channels[i].type
               \/ i \in handed) =>
                /\ channels'[i].notes = 0
                /\ channels'[i].pitch_bend_sensitivity =
                     (IF channels'[i].type = "Member" THEN MemberPbs
                      ELSE DefaultPbs) ]_vars

\* a zone whose members had been given a sensitivity was shrunk to n members:
\* the member below offset n still holds the value, the slot at offset n is a
\* fresh Conventional channel
C17_Witness ==
    /\ LastConfig
    /\ last.arg >= 2
    /\ Members(last.zone) = last.arg
    /\ channels[At(last.zone, last.arg - 1)].type = "Member"
    /\ channels[At(last.zone, last.arg - 1)].pitch_bend_sensitivity = MaxPbs
    /\ channels[At(last.zone, last.arg)] = new_conventional

\* C18: compute_range is the mirrored index translation over the whole index
\* domain: for each zone and every zone-relative range a..b with
\* 0 <= a <= b <= 16, the returned absolute range is ascending
\* (start <= end) and holds exactly the indices |manager_index - k| for
\* a <= k < b, so it is empty when a = b.
C18_ComputeRangeMirrors ==
    \A r \in answer :
      /\ r.start <= r.end
      /\ r.start .. (r.end - 1) =
           {abs_diff(manager_channel(query[1]), k) : k \in query[2] .. (query[3] - 1)}
      /\ query[2] = query[3] => r.start .. (r.end - 1) = {}

\* C19: config is idempotent.  From any state reachable by config (n in 0..=14)
\* and set_pitch_bend_sensitivity calls, calling config(zone, n) a second time
\* right after the first leaves all 16 channels (role tags, member_channels,
\* sensitivities, notes) exactly as the first call left them, and does not
\* panic.
C19_ConfigIdempotent ==
    ~panicked =>
      \A zone \in Zones, n \in 0 .. MaxMemberChannels :
        \A once \in Builds(channels, config(channels, zone, n)) :
          ~once.panicked =>
            \A twice \in Builds(once.channels, config(once.channels, zone, n)) :
              twice = once

\* a zone whose members held a sensitivity was grown to n members (the member at
\* offset n is fresh, the member at offset 1 keeps the value), and the same call
\* again returns this very state
C19_Witness ==
    /\ LastConfig
    /\ last.arg >= 3
    /\ Members(last.zone) = last.arg
    /\ channels[At(last.zone, 1)].type = "Member"
    /\ channels[At(last.zone, 1)].pitch_bend_sensitivity = MaxPbs
    /\ channels[At(last.zone, last.arg)] = new_member
    /\ config(channels, last.zone, last.arg) = Ok(channels)

\* the array seen in the mirror: channel 15 - i in place of channel i
Mirror(ch) == [i \in Channels |-> ch[UpperManager - i]]

\* C20: the two zones are exact mirror images.  For any sequence of
\* config(zone, n) (n in 0..=14) and set_pitch_bend_sensitivity(c, v) calls, the
\* sequence with Lower and Upper swapped and every index c replaced by 15 - c
\* ends in the mirrored state.  Stated step by step: the initial array is its
\* own mirror image, and from every reachable state the mirrored call applied to
\* the mirrored array gives the mirror image of what the call gives (the same
\* panic or overflow, and channel 15 - i holding the role tag, member_channels,
\* sensitivity and notes that channel i holds), for every config call and, while
\* the sequence may still take one, every set_pitch_bend_sensitivity call.
C20_ZonesMirror ==
    \A mirrored \in {Mirror(channels)} :
      /\ last = NoCall => mirrored = channels
      /\ ~panicked =>
           /\ \A zone \in Zones, n \in 0 .. MaxMemberChannels :
                \A r \in {config(channels, zone, n)},
                   q \in {config(mirrored, get_other(zone), n)} :
                  /\ q.panicked = r.panicked
                  /\ q.overflowed = r.overflowed
                  /\ \A i \in Channels : q.channels[UpperManager - i] = r.channels[i]
           /\ calls < MaxCalls =>
                \A c \in Channels, v \in 0 .. MaxPbs :
                  \A r \in {set_pitch_bend_sensitivity(channels, c, v)},
                     q \in {set_pitch_bend_sensitivity(mirrored, UpperManager - c, v)} :
                    /\ q.panicked = r.panicked
                    /\ q.overflowed = r.overflowed
                    /\ \A i \in Channels : q.channels[UpperManager - i] = r.channels[i]

\* set_pitch_bend_sensitivity reached the members of an Upper zone that had been
\* shrunk, beside a Lower zone of another size: a state that is not its own
\* mirror image
C20_Witness ==
    /\ LastPbs
    /\ channels[last.channel].type = "Member"
    /\ zone_by_channel(channels, last.channel) = Some("Upper")
    /\ channels[last.channel].pitch_bend_sensitivity = MaxPbs
    /\ \E i \in MemberIndices("Upper") : channels[i].type = "Conventional"
    /\ Members("Lower") >= 1
    /\ Members("Lower") # Members("Upper")
    /\ Mirror(channels) # channels

====
